---- MODULE Spec2Model ----
(***************************************************************************)
(* Model of the command-execution orchestrator ClaudeIntegration           *)
(* (src/claude/facade.py): run_command with its validating stream_handler, *)
(* _execute_with_fallback (SDK -> subprocess fallback), continue_session.  *)
(*                                                                         *)
(* Strings that the code inspects by substring (exception texts, denial    *)
(* reasons, remediation messages) are sequences of tokens; `pat in text`   *)
(* is "some token of text is pat".  Session ids are tuples: None is <<>>,  *)
(* the empty string is <<"">>, "temp_<n>" is <<"temp_", n>> and an         *)
(* engine-issued id is <<"sess_", n>>.  Optional objects (a response, an   *)
(* exception) are sequences of length 0 or 1.                              *)
(*                                                                         *)
(* The variable budget says what a behaviour explores: how many calls,     *)
(* tool calls and recorded updates, in which slots, from which places and  *)
(* callers.  Spec is calls that follow one another; SpecStream is one call *)
(* with the history of its stream handler; SpecConcurrent is two calls in  *)
(* flight together; SpecRestored starts from a store that holds sessions;  *)
(* SpecShutdown adds shutdown() to it; SpecTraced is one call that keeps   *)
(* what its user lookup gave and which attempt streamed each denial.       *)
(*                                                                         *)
(* The variable chat is the chat of one user with the command handlers of  *)
(* src/bot/handlers/command.py (/new, /cd, /continue, /end), which call    *)
(* the orchestrator; SpecChat is that chat, the other specifications leave *)
(* it alone.                                                               *)
(***************************************************************************)
EXTENDS Integers, Sequences, FiniteSets, TLC

VARIABLES config, sdk_failed_count, sessions, now, call, returned_ids, failures_since_success, budget,
          shutdown_log, chat

vars == <<config, sdk_failed_count, sessions, now, call, returned_ids, failures_since_success, budget,
          shutdown_log, chat>>

(* ------------------------------ bounds --------------------------------- *)

\* calls of run_command / continue_session in one behaviour
MaxCalls == 2

\* tool calls the backends stream during one call (over all its updates);
\* calls in flight together share them
MaxToolCalls == 2

\* updates the backends stream during one call whose handler steps are kept
MaxUpdates == 2

(* ------------------------------ universes ------------------------------ *)

\* None where a session id is expected
None == <<>>

\* the empty string as a session id
EmptyStr == <<"">>

\* None where a model name, an error type or a prompt is expected
NoneStr == "None"

\* the run_command / continue_session calls that may be in flight together
Slots == {1, 2}

Prompts == {"p"}

\* the prompt argument of continue_session: /continue without arguments
ContinuePrompts == {NoneStr}

\* who calls from where: one user in two directories
Places == {[user_id |-> 1, dir |-> "A"], [user_id |-> 1, dir |-> "B"]}

\* outcomes of session_manager._get_user(user_id): it raises, gives no
\* user, or gives a user whose preferred_model is "opus"
Lookups == {"raises", "no_user", "opus"}

\* what a caller brings: a stream handler or none, and what the lookup of
\* the caller's user record gives
Callers == {cr \in [on_stream : BOOLEAN, lookup : Lookups] : cr.on_stream <=> cr.lookup = "opus"}

\* names the engine may put in a tool call: a critical tool, an ordinary
\* tool, and a tool whose name is itself one of the fallback patterns
ToolNames == {"Read", "Bash", "TaskGroup"}

(* ------------------------------ helpers -------------------------------- *)

\* Python truthiness of an Optional[str]
Truthy(s) == s /= None /\ s /= EmptyStr

\* s.startswith("temp_")
IsTemp(s) == Len(s) > 0 /\ s[1] = "temp_"

\* pat in text
Contains(text, pat) == \E i \in 1..Len(text) : text[i] = pat

RECURSIVE Concat(_)
\* concatenation of a sequence of token sequences
Concat(ss) == IF ss = <<>> THEN <<>> ELSE Head(ss) \o Concat(Tail(ss))

\* every ordering list(s) may produce for a Python set s
Orderings(S) == {q \in [1..Cardinality(S) -> S] : \A i, j \in 1..Cardinality(S) : i /= j => q[i] /= q[j]}

RECURSIVE Dedupe(_)
\* list(dict.fromkeys(xs)): first occurrences, in order
Dedupe(xs) ==
    IF xs = <<>> THEN <<>>
    ELSE LET front == Dedupe(SubSeq(xs, 1, Len(xs) - 1))
             last == xs[Len(xs)]
         IN IF Contains(front, last) THEN front ELSE Append(front, last)

(* ------------------------ remediation messages -------------------------- *)

\* the list merged into the administrator block
current_tools ==
    <<"Read", "Write", "Edit", "Bash", "Glob", "Grep", "LS", "Task", "MultiEdit",
      "NotebookRead", "NotebookEdit", "WebFetch", "TodoRead", "TodoWrite", "WebSearch">>

merged_tools(blocked_tools) == Dedupe(current_tools \o blocked_tools)

\* _get_admin_instructions(blocked_tools); env_exists is Path(".env").exists()
_get_admin_instructions(blocked_tools, env_exists) ==
    IF blocked_tools = <<>> THEN <<>>
    ELSE <<"For Administrators:">>
         \o (IF env_exists
             THEN <<"To enable these tools, add them to your .env file:">>
             ELSE <<"To enable these tools:", "1. Create a .env file in your project root",
                    "2. Add the following line:">>)
         \o <<"CLAUDE_ALLOWED_TOOLS=">> \o merged_tools(blocked_tools)
         \o <<"Or modify the default in src/config/settings.py:", "default=">>
         \o merged_tools(blocked_tools)

\* _create_tool_error_message(blocked_tools, allowed_tools, admin_instructions)
_create_tool_error_message(blocked_tools, allowed_tools, admin_instructions) ==
    <<"Tool Access Blocked", "Claude tried to use tools that are not currently allowed:">>
    \o blocked_tools
    \o <<"Why this happened:", "What you can do:", "Currently allowed tools:">>
    \o (IF allowed_tools /= <<>> THEN allowed_tools ELSE <<"None">>)
    \o admin_instructions

(* ------------------------- tool-call validator -------------------------- *)

\* verdicts of ToolMonitor.validate_tool_call for one tool call
Verdicts == {"ok", "not_allowed", "disallowed"}

\* the tool calls a backend may stream, each with the validator's verdict on it
ToolCalls ==
    {tc \in [name : ToolNames, verdict : Verdicts] : tc.name = "TaskGroup" => tc.verdict = "not_allowed"}

\* the (valid, error) pair the validator returns: the error text of a denial
DenialReason(tc) ==
    IF tc.verdict = "not_allowed" THEN <<"Tool not allowed: ", tc.name>>
    ELSE <<"Tool explicitly disallowed: ", tc.name>>

\* "Tool not allowed:" in error
HasMarker(error) == Contains(error, "Tool not allowed: ")

\* error.split("Tool not allowed: ")[1]
AfterMarker(error) ==
    LET i == CHOOSE k \in 1..Len(error) :
                 error[k] = "Tool not allowed: " /\ \A j \in 1..(k - 1) : error[j] /= "Tool not allowed: "
        rest == SubSeq(error, i + 1, Len(error))
        stop == IF Contains(rest, "Tool not allowed: ")
                THEN (CHOOSE k \in 1..Len(rest) :
                          rest[k] = "Tool not allowed: " /\ \A j \in 1..(k - 1) : rest[j] /= "Tool not allowed: ") - 1
                ELSE Len(rest)
    IN SubSeq(rest, 1, stop)

\* mutant: the denial of any tool is raised at once
IsCritical_Any(tool_name) == TRUE

\* tool_name in ["Task", "Read", "Write", "Edit"]
IsCritical(tool_name) == tool_name \in {"Task", "Read", "Write", "Edit"}

(* ----------------------------- session store ---------------------------- *)

\* the record the store keeps for a session id
SessionRec(user_id, project_path, last_used, is_new_session) ==
    [user_id |-> user_id, project_path |-> project_path, last_used |-> last_used,
     is_new_session |-> is_new_session]

\* the id get_or_create_session resolves to: the known id, else a fresh placeholder
ResolvedId(store, session_id, clock) ==
    IF Truthy(session_id) /\ session_id \in DOMAIN store THEN session_id ELSE <<"temp_", clock>>

\* SessionManager.get_or_create_session: the store after the call
get_or_create_session(store, user_id, project_path, session_id, clock) ==
    IF Truthy(session_id) /\ session_id \in DOMAIN store THEN store
    ELSE [k \in DOMAIN store \cup {<<"temp_", clock>>} |->
            IF k \in DOMAIN store THEN store[k]
            ELSE SessionRec(user_id, project_path, clock, TRUE)]

\* SessionManager.update_session: a new session takes the engine's id
update_session(store, session_id, response, clock) ==
    IF session_id \notin DOMAIN store THEN store
    ELSE LET old == store[session_id]
             rekey == old.is_new_session /\ Truthy(response.session_id)
             key == IF rekey THEN response.session_id ELSE session_id
             rec == SessionRec(old.user_id, old.project_path, clock,
                               IF rekey THEN FALSE ELSE old.is_new_session)
         IN [k \in (DOMAIN store \ {session_id}) \cup {key} |-> IF k = key THEN rec ELSE store[k]]

\* SessionManager._get_user_sessions: the ids of the user's sessions
_get_user_sessions(store, user_id) == {k \in DOMAIN store : store[k].user_id = user_id}

(* ------------------------------ exceptions ------------------------------ *)

\* an exception raised by a backend's execute_command; str(e) is msg
BackendError(text, by) ==
    [type |-> "BackendError", msg |-> text, by |-> by, blocked_tools |-> <<>>, allowed_tools |-> <<>>]

\* ClaudeToolValidationError(error_msg, blocked_tools=..., allowed_tools=...)
ClaudeToolValidationError(error_msg, blocked_tools, allowed_tools, by) ==
    [type |-> "ClaudeToolValidationError", msg |-> error_msg, by |-> by,
     blocked_tools |-> blocked_tools, allowed_tools |-> allowed_tools]

\* texts of the errors a backend may raise on its own
BackendErrorTexts ==
    {<<"Failed to decode JSON">>, <<"ExceptionGroup">>, <<"Invalid API key">>}

(* ------------------------- _execute_with_fallback ------------------------ *)

\* mutant: the SDK is tried whatever the configuration says
UseSdk_Always(cfg) == TRUE

\* if self.config.use_sdk and self.sdk_manager
UseSdk(cfg) == cfg.use_sdk

\* mutant: every SDK error selects the fallback
IsTransient_Any(error_str) == TRUE

\* the substring test that selects the subprocess fallback
IsTransient(error_str) ==
    \/ Contains(error_str, "Failed to decode JSON")
    \/ Contains(error_str, "JSON decode error")
    \/ Contains(error_str, "TaskGroup")
    \/ Contains(error_str, "ExceptionGroup")

\* self._sdk_failed_count = 0
CountAfterSdkSuccess(n) == 0

\* self._sdk_failed_count += 1
CountAfterSdkFailure(n) == n + 1

\* mutant: the error of the fallback is raised
RaisedAfterFallbackFailure_Last(e, fallback_error) == fallback_error

\* raise e: the exception raised when the subprocess fallback fails too
RaisedAfterFallbackFailure(e, fallback_error) == e

\* mutant: the SDK is handed the id of the session object
SdkAttempt_RawId(cl) ==
    [kind |-> "primary", prompt |-> cl.prompt, working_directory |-> cl.working_directory,
     session_id |-> cl.session.session_id, continue_session |-> cl.should_continue,
     stream_callback |-> "stream_handler", model |-> cl.user_model_pref, outcome |-> "running"]

\* self.sdk_manager.execute_command(prompt=..., ..., model=model)
SdkAttempt(cl) ==
    [kind |-> "primary", prompt |-> cl.prompt, working_directory |-> cl.working_directory,
     session_id |-> cl.claude_session_id, continue_session |-> cl.should_continue,
     stream_callback |-> "stream_handler", model |-> cl.user_model_pref, outcome |-> "running"]

\* mutant: the fallback starts a fresh conversation and is given no callback
FallbackAttempt_Bare(cl) ==
    [kind |-> "secondary", prompt |-> cl.prompt, working_directory |-> cl.working_directory,
     session_id |-> None, continue_session |-> FALSE,
     stream_callback |-> "None", model |-> NoneStr, outcome |-> "running"]

\* self.process_manager.execute_command(...) of the fallback: no model argument
FallbackAttempt(cl) ==
    [kind |-> "secondary", prompt |-> cl.prompt, working_directory |-> cl.working_directory,
     session_id |-> cl.claude_session_id, continue_session |-> cl.should_continue,
     stream_callback |-> "stream_handler", model |-> NoneStr, outcome |-> "running"]

\* self.process_manager.execute_command(...) when the SDK is not configured
DirectAttempt(cl) ==
    [kind |-> "direct", prompt |-> cl.prompt, working_directory |-> cl.working_directory,
     session_id |-> cl.claude_session_id, continue_session |-> cl.should_continue,
     stream_callback |-> "stream_handler", model |-> NoneStr, outcome |-> "running"]

\* the first backend call of _execute_with_fallback
FirstAttempt(cfg, cl) == IF UseSdk(cfg) THEN SdkAttempt(cl) ELSE DirectAttempt(cl)

\* the attempt log with the running (last) attempt closed
Ended(attempts, outcome) == [attempts EXCEPT ![Len(attempts)].outcome = outcome]

\* mutant: a failed fallback is tried again
AfterException_Retry(cl, e) ==
    IF cl.pc = "primary" /\ IsTransient(e.msg)
    THEN LET ended == [cl EXCEPT !.attempts = Ended(cl.attempts, "transient"), !.e1 = <<e>>]
         IN [ended EXCEPT !.pc = "secondary", !.attempts = Append(ended.attempts, FallbackAttempt(cl))]
    ELSE IF cl.pc = "secondary"
    THEN [cl EXCEPT !.attempts = Append(Ended(cl.attempts, "raised"), FallbackAttempt(cl))]
    ELSE [cl EXCEPT !.pc = "raised", !.attempts = Ended(cl.attempts, "raised"), !.exc = <<e>>]

\* mutant: the fallback starts with a validation state of its own
AfterException_FreshValidation(cl, e) ==
    IF cl.pc = "primary" /\ IsTransient(e.msg)
    THEN LET ended == [cl EXCEPT !.attempts = Ended(cl.attempts, "transient"), !.e1 = <<e>>]
         IN [ended EXCEPT !.pc = "secondary", !.attempts = Append(ended.attempts, FallbackAttempt(cl)),
                          !.tools_validated = TRUE, !.validation_errors = <<>>, !.blocked_tools = {}]
    ELSE IF cl.pc = "secondary"
    THEN [cl EXCEPT !.pc = "raised", !.attempts = Ended(cl.attempts, "raised"),
                    !.exc = <<RaisedAfterFallbackFailure(cl.e1[1], e)>>]
    ELSE [cl EXCEPT !.pc = "raised", !.attempts = Ended(cl.attempts, "raised"), !.exc = <<e>>]

\* the call after the running attempt raised e (except branches, and the
\* except of run_command that re-raises)
AfterException(cl, e) ==
    IF cl.pc = "primary" /\ IsTransient(e.msg)
    THEN LET ended == [cl EXCEPT !.attempts = Ended(cl.attempts, "transient"), !.e1 = <<e>>]
         IN [ended EXCEPT !.pc = "secondary", !.attempts = Append(ended.attempts, FallbackAttempt(cl))]
    ELSE IF cl.pc = "secondary"
    THEN [cl EXCEPT !.pc = "raised", !.attempts = Ended(cl.attempts, "raised"),
                    !.exc = <<RaisedAfterFallbackFailure(cl.e1[1], e)>>]
    ELSE [cl EXCEPT !.pc = "raised", !.attempts = Ended(cl.attempts, "raised"), !.exc = <<e>>]

\* mutant: the increment writes back the value read when the call began
CountAfterException_FromCallStart(cl, e, n) ==
    IF cl.pc = "primary" /\ IsTransient(e.msg) THEN cl.count_before + 1 ELSE n

\* self._sdk_failed_count after the running attempt raised e: the read and
\* the write of += 1 have no await between them
CountAfterException(cl, e, n) ==
    IF cl.pc = "primary" /\ IsTransient(e.msg) THEN CountAfterSdkFailure(n) ELSE n

\* mutant: a success of the subprocess fallback resets the counter too
CountAfterReturn_AnyBackend(cl, n) == CountAfterSdkSuccess(n)

\* self._sdk_failed_count after the running attempt returned
CountAfterReturn(cl, n) == IF cl.pc = "primary" THEN CountAfterSdkSuccess(n) ELSE n

(* ------------------------ run_command.stream_handler --------------------- *)

\* self.config.claude_allowed_tools or []  (the option is <<>> for None)
AllowedOrEmpty(cfg) == IF cfg.claude_allowed_tools = <<>> THEN <<>> ELSE cfg.claude_allowed_tools[1]

RECURSIVE Validate_FlagFollowsLast(_, _)
\* mutant: the flag is assigned the verdict of every tool call, so that an
\* allowed tool call sets it back
Validate_FlagFollowsLast(st, tool_calls) ==
    IF tool_calls = <<>> THEN st
    ELSE LET tc == Head(tool_calls)
             error == DenialReason(tc)
             denied == [st EXCEPT !.tools_validated = FALSE,
                                  !.validation_errors = Append(@, error),
                                  !.blocked_tools = IF HasMarker(error) THEN @ \cup {tc.name} ELSE @,
                                  !.validated = @ + 1]
         IN IF tc.verdict = "ok"
            THEN Validate_FlagFollowsLast([st EXCEPT !.tools_validated = TRUE, !.validated = @ + 1],
                                          Tail(tool_calls))
            ELSE IF IsCritical(tc.name) THEN [denied EXCEPT !.raised = TRUE]
            ELSE Validate_FlagFollowsLast(denied, Tail(tool_calls))

RECURSIVE Validate_RaiseAtEnd(_, _)
\* mutant: the rest of the update is validated before the error for a
\* critical tool is raised
Validate_RaiseAtEnd(st, tool_calls) ==
    IF tool_calls = <<>> THEN st
    ELSE LET tc == Head(tool_calls)
             error == DenialReason(tc)
             denied == [st EXCEPT !.tools_validated = FALSE,
                                  !.validation_errors = Append(@, error),
                                  !.blocked_tools = IF HasMarker(error) THEN @ \cup {tc.name} ELSE @,
                                  !.validated = @ + 1]
         IN IF tc.verdict = "ok" THEN Validate_RaiseAtEnd([st EXCEPT !.validated = @ + 1], Tail(tool_calls))
            ELSE IF IsCritical(tc.name)
            THEN [Validate_RaiseAtEnd(denied, Tail(tool_calls)) EXCEPT !.raised = TRUE]
            ELSE Validate_RaiseAtEnd(denied, Tail(tool_calls))

RECURSIVE Validate(_, _)
\* the for loop over update.tool_calls: st is the closure state of the call
\* (tools_validated, validation_errors, blocked_tools); raised is set when
\* the loop is left by the raise for a critical tool
Validate(st, tool_calls) ==
    IF tool_calls = <<>> THEN st
    ELSE LET tc == Head(tool_calls)
             error == DenialReason(tc)
             denied == [st EXCEPT !.tools_validated = FALSE,
                                  !.validation_errors = Append(@, error),
                                  !.blocked_tools = IF HasMarker(error) THEN @ \cup {tc.name} ELSE @,
                                  !.validated = @ + 1]
         IN IF tc.verdict = "ok" THEN Validate([st EXCEPT !.validated = @ + 1], Tail(tool_calls))
            ELSE IF IsCritical(tc.name) THEN [denied EXCEPT !.raised = TRUE]
            ELSE Validate(denied, Tail(tool_calls))

\* mutant: the flag and the blocked-tool set are shared by the calls of the
\* orchestrator instead of being locals of run_command
ClosureState_Shared(cl) ==
    [tools_validated |-> \A d \in DOMAIN call : call[d].tools_validated,
     validation_errors |-> cl.validation_errors,
     blocked_tools |-> UNION {call[d].blocked_tools : d \in DOMAIN call},
     validated |-> 0, raised |-> FALSE]

\* the closure state of a call as Validate takes it
ClosureState(cl) ==
    [tools_validated |-> cl.tools_validated, validation_errors |-> cl.validation_errors,
     blocked_tools |-> cl.blocked_tools, validated |-> 0, raised |-> FALSE]

\* the names denied among the first n tool calls of an update
DeniedIn(update, n) == {update[i].name : i \in {j \in 1..n : update[j].verdict /= "ok"}}

\* the tool calls denied among the first n of the u-th update, in the order
\* of the for loop
DenialsIn(u, update, n) ==
    LET denied == SelectSeq(SubSeq(update, 1, n), LAMBDA tc : tc.verdict /= "ok")
    IN [i \in 1..Len(denied) |-> [name |-> denied[i].name, verdict |-> denied[i].verdict, update |-> u]]

\* the place in an update of the first tool call that is critical and denied
FirstCriticalDenial(update) ==
    CHOOSE i \in 1..Len(update) :
        /\ update[i].verdict /= "ok" /\ IsCritical(update[i].name)
        /\ \A j \in 1..(i - 1) : update[j].verdict = "ok" \/ ~IsCritical(update[j].name)

\* what the caller's on_stream does with an update: there is no handler
\* ("none"), it returns ("ok") or it raises an Exception ("raises")
CallbackOutcomes(cl) == IF cl.on_stream THEN {"ok", "raises"} ELSE {"none"}

\* the exception an on_stream handler raises
CallbackError(by) ==
    [type |-> "CallbackError", msg |-> <<"Stream callback failed">>, by |-> by,
     blocked_tools |-> <<>>, allowed_tools |-> <<>>]

\* mutant: validation errors are the only exceptions the handler catches
AfterCallback_Propagates(cl, outcome) ==
    IF outcome = "raises"
    THEN [cl EXCEPT !.pc = "raised", !.attempts = [@ EXCEPT ![Len(@)].outcome = "raised"],
                    !.exc = <<CallbackError(cl.pc)>>]
    ELSE cl

\* try: await on_stream(update) / except Exception: logger.warning(...)
AfterCallback(cl, outcome) == cl

\* one step of the handler as the history keeps it
Event(kind, update, index) == [kind |-> kind, update |-> update, index |-> index]

\* mutant: the update is handed to the caller before its tool calls are validated
HandlerEvents_ForwardFirst(u, update, st, outcome) ==
    <<Event("emit", u, Len(update))>>
    \o (IF outcome /= "none" THEN <<Event("forward", u, 0)>> ELSE <<>>)
    \o [i \in 1..st.validated |-> Event("validate", u, i)]
    \o (IF outcome = "raises" THEN <<Event("callback_raised", u, 0)>> ELSE <<>>)

\* the steps of stream_handler on the u-th update, in the order of the code:
\* the validations of the for loop (st.validated of them), then on_stream
HandlerEvents(u, update, st, outcome) ==
    <<Event("emit", u, Len(update))>>
    \o [i \in 1..st.validated |-> Event("validate", u, i)]
    \o (IF outcome /= "none" THEN <<Event("forward", u, 0)>> ELSE <<>>)
    \o (IF outcome = "raises" THEN <<Event("callback_raised", u, 0)>> ELSE <<>>)

\* the error raised for a critical tool; blocked is list(blocked_tools)
CriticalError(cfg, blocked, env_exists, by) ==
    ClaudeToolValidationError(
        _create_tool_error_message(blocked, AllowedOrEmpty(cfg), _get_admin_instructions(blocked, env_exists)),
        blocked, AllowedOrEmpty(cfg), by)

\* the errors the raise for a critical tool may produce where .env is as
\* env_exists says: list(blocked_tools) lists a set, in an order the
\* language leaves open
Raisable(cfg, blocked_tools, env_exists, by) ==
    {CriticalError(cfg, blocked, env_exists, by) : blocked \in Orderings(blocked_tools)}

(* ------------------------------ run_command ------------------------------ *)

\* mutant: a call that supplies a session id continues, new session or not
ShouldContinue_IdOnly(session_id, session) == Truthy(session_id)

\* bool(session_id) and not getattr(session, "is_new_session", False)
ShouldContinue(session_id, session) == Truthy(session_id) /\ ~session.is_new_session

\* mutant: the session's own id is forwarded, placeholder or not
ClaudeSessionId_Raw(session) == session.session_id

\* None if getattr(session, "is_new_session", False) else session.session_id
ClaudeSessionId(session) == IF session.is_new_session THEN None ELSE session.session_id

\* mutant: what the lookup gave is taken for the preference
UserModelPref_Unchecked(lookup) == lookup

\* user.preferred_model when the lookup gives a user, else None
UserModelPref(lookup) == IF lookup \in {"raises", "no_user"} THEN NoneStr ELSE lookup

\* tool names taken back out of the recorded errors (lines 177-181)
RECURSIVE ExtractBlocked(_)
ExtractBlocked(validation_errors) ==
    IF validation_errors = <<>> THEN <<>>
    ELSE (IF HasMarker(Head(validation_errors)) THEN AfterMarker(Head(validation_errors)) ELSE <<>>)
         \o ExtractBlocked(Tail(validation_errors))

\* the content written when tools were blocked by the allow-list
BlockedContent(blocked_tools, allowed_tools) ==
    <<"Tool Access Blocked", "Claude tried to use tools not allowed:">> \o blocked_tools
    \o <<"What you can do:", "Currently allowed tools:">> \o allowed_tools

\* mutant: the details are the reason recorded last
GenericContent_LastOnly(validation_errors) ==
    <<"Tool Validation Failed", "Tools failed security validation. Try different approach.", "Details: ">>
    \o validation_errors[Len(validation_errors)]

\* the content written for any other validation failure
GenericContent(validation_errors) ==
    <<"Tool Validation Failed", "Tools failed security validation. Try different approach.", "Details: ">>
    \o Concat(validation_errors)

\* mutant: the response is flagged but keeps the backend's content
FoldValidation_FlagsOnly(cl, cfg, response) ==
    IF cl.tools_validated THEN response
    ELSE [response EXCEPT !.is_error = TRUE, !.error_type = "tool_validation_failed"]

\* if not tools_validated: ... (lines 166-202)
FoldValidation(cl, cfg, response) ==
    IF cl.tools_validated THEN response
    ELSE LET blocked == ExtractBlocked(cl.validation_errors)
         IN [response EXCEPT !.is_error = TRUE,
                             !.error_type = "tool_validation_failed",
                             !.content = IF blocked /= <<>>
                                         THEN BlockedContent(blocked, AllowedOrEmpty(cfg))
                                         ELSE GenericContent(cl.validation_errors)]

\* hasattr(session, "is_new_session"): a field of every Session
HasIsNewSession == TRUE

\* final_session_id (lines 209-214)
FinalSessionId(response, old_session_id) ==
    IF HasIsNewSession /\ Truthy(response.session_id) THEN response.session_id ELSE old_session_id

\* mutant: the response returned is built anew and its cost is left out
Returned_CostReset(cl, cfg, response) ==
    [FoldValidation(cl, cfg, response) EXCEPT !.session_id = FinalSessionId(response, cl.session.session_id),
                                              !.cost = 0]

\* the response run_command returns for the backend's response (lines 166-228)
Returned(cl, cfg, response) ==
    [FoldValidation(cl, cfg, response) EXCEPT !.session_id = FinalSessionId(response, cl.session.session_id)]

\* mutant: the session is updated with the response as the backend gave it
StoredResponse_Unfolded(cl, cfg, response) == response

\* the response handed to update_session at line 206: the backend's
\* response object after lines 166-202 have written to it, before line 217
StoredResponse(cl, cfg, response) == FoldValidation(cl, cfg, response)

\* mutant: the response of the fallback is dropped and the SDK error raised
AfterReturn_RaiseAfterFallback(cl, cfg, response) ==
    IF cl.pc = "secondary"
    THEN [cl EXCEPT !.pc = "raised", !.attempts = Ended(cl.attempts, "returned"), !.exc = cl.e1]
    ELSE [cl EXCEPT !.pc = "returned", !.attempts = Ended(cl.attempts, "returned"),
                    !.stored = Append(@, StoredResponse(cl, cfg, response)),
                    !.response = <<Returned(cl, cfg, response)>>]

\* the call after the running backend returned response (return response of
\* _execute_with_fallback, then lines 166-228); stored keeps what
\* update_session was handed
AfterReturn(cl, cfg, response) ==
    [cl EXCEPT !.pc = "returned", !.attempts = Ended(cl.attempts, "returned"),
               !.stored = Append(@, StoredResponse(cl, cfg, response)),
               !.response = <<Returned(cl, cfg, response)>>]

\* mutant: a call that raises takes its session out of the store
SessionsAfter_DropOnRaise(cl, store, clock) ==
    IF cl.pc = "returned"
    THEN update_session(store, cl.session.session_id, cl.stored[Len(cl.stored)], clock)
    ELSE IF cl.pc = "raised"
    THEN [k \in DOMAIN store \ {cl.session.session_id} |-> store[k]]
    ELSE store

\* the store after a backend attempt of the call ended: update_session at
\* line 206 when run_command returns, nothing in the except block (230-237)
\* or while the fallback runs
SessionsAfter(cl, store, clock) ==
    IF cl.pc = "returned"
    THEN update_session(store, cl.session.session_id, cl.stored[Len(cl.stored)], clock)
    ELSE store

(* --------------------------------- state --------------------------------- *)

\* a call slot before any call.  Beside the locals of run_command the record
\* keeps what the call has done: attempts (the backend calls and their
\* arguments), errors (the exceptions raised in it), critical (the attempts
\* whose handler raised), raisable (the blocked-tool set and the .env
\* presence each of those raises saw), denials (the denied tool calls, in
\* order), lookup and denied_by (what the user lookup gave and the attempts
\* that streamed a denied tool call, when budget.traced asks for them),
\* stored (what update_session was handed), events (the steps of the handler, when recorded), cut_at (the
\* updates in which a critical tool was denied and the place of that tool
\* call, when recorded)
IdleCall ==
    [pc |-> "idle", via |-> "none", prompt |-> "", working_directory |-> "", user_id |-> 0,
     session_id |-> None, on_stream |-> FALSE,
     session |-> [session_id |-> None, is_new_session |-> FALSE],
     tools_validated |-> TRUE, validation_errors |-> <<>>, blocked_tools |-> {},
     user_model_pref |-> NoneStr, should_continue |-> FALSE, claude_session_id |-> None,
     attempts |-> <<>>, tool_calls |-> 0, critical |-> <<>>,
     e1 |-> <<>>, exc |-> <<>>, response |-> <<>>, errors |-> <<>>, backend_response |-> <<>>,
     count_before |-> 0, store_before |-> <<>>,
     started |-> 0, denied |-> {}, events |-> <<>>, at_callback |-> <<>>, raisable |-> <<>>,
     stored |-> <<>>, denials |-> <<>>, denied_by |-> {}, cut_at |-> <<>>,
     lookup |-> ""]

\* the directories of the chat: the approved directory and one below it
Directories == {"A", "B"}

\* a /continue handler that is not running
IdleHandler == [pc |-> "idle", current_dir |-> "", claude_session_id |-> None]

\* the chat of one user before any command: context.user_data holds no
\* current_directory (the approved directory is read, command.py 164-166),
\* no claude_session_id and no session_started; no /continue handler runs; ran keeps the
\* session ids the facade returned with the directory it was given
IdleChat ==
    [current_directory |-> "A", claude_session_id |-> None, session_started |-> FALSE,
     handler |-> [c \in Slots |-> IdleHandler], ran |-> {}]

\* the configurations: Settings.use_sdk, Settings.claude_allowed_tools
Configs ==
    {[use_sdk |-> TRUE, claude_allowed_tools |-> <<<<"Glob">>>>],
     [use_sdk |-> FALSE, claude_allowed_tools |-> <<>>]}

\* the calls of a user who stays in one directory
SamePlace == {place \in Places : place.dir = "A"}

\* what one behaviour explores: all the calls, from one directory and with
\* streams one tool call shorter, or all the tool calls and places with one
\* call fewer; the calls follow one another (one slot) and the steps of the
\* handler are not kept (updates 0)
Budgets ==
    {[calls |-> MaxCalls, tool_calls |-> MaxToolCalls - 1, updates |-> 0, slots |-> {1},
      places |-> SamePlace, callers |-> Callers, traced |-> FALSE],
     [calls |-> MaxCalls - 1, tool_calls |-> MaxToolCalls, updates |-> 0, slots |-> {1},
      places |-> Places, callers |-> Callers, traced |-> FALSE]}

Init ==
    /\ config \in Configs
    /\ sdk_failed_count = 0
    /\ sessions = <<>>
    /\ now = 0
    /\ call = [c \in Slots |-> IdleCall]
    /\ returned_ids = {}
    /\ failures_since_success = 0
    /\ budget \in Budgets
    /\ shutdown_log = <<>>
    /\ chat = IdleChat

\* the behaviour keeps the steps of the handler, for budget.updates updates a call
Recording == budget.updates > 0

\* the updates a call has been streamed, by its history
Emitted(cl) == Cardinality({i \in 1..Len(cl.events) : cl.events[i].kind = "emit"})

\* a slot whose call is over
Over(c) == call[c].pc \in {"idle", "returned", "raised", "none"}

\* a slot whose call is awaiting a backend
Running(c) == call[c].pc \in {"primary", "secondary", "direct"}

\* the patterns of a transient failure of the structured channel
TransientPatterns == {"Failed to decode JSON", "JSON decode error", "TaskGroup", "ExceptionGroup"}

\* the history count of primary transient failures since the last primary success
HistoryAfterException(cl, e, n) ==
    IF cl.pc = "primary" /\ (\E pat \in TransientPatterns : Contains(e.msg, pat)) THEN n + 1 ELSE n

HistoryAfterReturn(cl, n) == IF cl.pc = "primary" THEN 0 ELSE n

\* run_command up to the first backend call (lines 60-164)
Begin(c, via, prompt, working_directory, user_id, session_id, on_stream, lookup) ==
    LET clock == now + 1
        store == get_or_create_session(sessions, user_id, working_directory, session_id, clock)
        rid == ResolvedId(sessions, session_id, clock)
        session == [session_id |-> rid, is_new_session |-> store[rid].is_new_session]
        cl == [IdleCall EXCEPT !.via = via, !.prompt = prompt, !.working_directory = working_directory,
                               !.user_id = user_id, !.session_id = session_id, !.on_stream = on_stream,
                               !.session = session,
                               !.user_model_pref = UserModelPref(lookup),
                               !.lookup = IF budget.traced THEN lookup ELSE @,
                               !.should_continue = ShouldContinue(session_id, session),
                               !.claude_session_id = ClaudeSessionId(session),
                               !.count_before = sdk_failed_count,
                               !.store_before = sessions,
                               !.started = clock]
        first == FirstAttempt(config, cl)
    IN /\ now' = clock
       /\ sessions' = store
       /\ call' = [call EXCEPT ![c] = [cl EXCEPT !.pc = first.kind, !.attempts = <<first>>]]
       /\ UNCHANGED <<config, sdk_failed_count, returned_ids, failures_since_success, budget, shutdown_log>>

\* run_command(prompt, working_directory, user_id, session_id, on_stream)
RunCommand(c) ==
    /\ Over(c)
    /\ now < budget.calls
    /\ \E prompt \in Prompts, place \in budget.places, session_id \in {None} \cup returned_ids,
          caller \in budget.callers :
          Begin(c, "run_command", prompt, place.dir, place.user_id, session_id, caller.on_stream, caller.lookup)
    /\ UNCHANGED chat

\* mutant: placeholder sessions are candidates too
MatchingSessions_WithPlaceholders(store, user_id, working_directory) ==
    {k \in _get_user_sessions(store, user_id) : store[k].project_path = working_directory}

\* the sessions continue_session may resume (lines 339-344)
MatchingSessions(store, user_id, working_directory) ==
    {k \in _get_user_sessions(store, user_id) : store[k].project_path = working_directory /\ ~IsTemp(k)}

\* mutant: the session used longest ago is taken
LatestSession_Oldest(store, matching) ==
    CHOOSE k \in matching : \A j \in matching : store[k].last_used <= store[j].last_used

\* max(matching_sessions, key=lambda s: s.last_used)
LatestSession(store, matching) ==
    CHOOSE k \in matching : \A j \in matching : store[j].last_used <= store[k].last_used

\* continue_session from its entry to the first backend call, or to its
\* return of None when the user has no session in the directory (lines 320-360)
Continue(c, prompt, user_id, working_directory, on_stream, lookup) ==
    LET matching == MatchingSessions(sessions, user_id, working_directory)
    IN IF matching = {}
       THEN /\ call' = [call EXCEPT ![c] = [IdleCall EXCEPT !.pc = "none", !.via = "continue_session",
                                               !.user_id = user_id, !.working_directory = working_directory,
                                               !.store_before = sessions]]
            /\ UNCHANGED <<config, sdk_failed_count, sessions, now, returned_ids, failures_since_success, budget, shutdown_log>>
       ELSE Begin(c, "continue_session", IF prompt = NoneStr THEN "" ELSE prompt, working_directory,
                  user_id, LatestSession(sessions, matching), on_stream, lookup)

\* continue_session(user_id, working_directory, prompt, on_stream)
ContinueSession(c) ==
    /\ Over(c)
    /\ now < budget.calls
    /\ \E prompt \in ContinuePrompts, place \in budget.places, caller \in budget.callers :
          Continue(c, prompt, place.user_id, place.dir, caller.on_stream, caller.lookup)
    /\ UNCHANGED chat

\* the tool calls streamed to the latest calls of the slots
Streamed == call[1].tool_calls + call[2].tool_calls

\* the updates a backend may stream: sequences of tool calls
Updates(n) == UNION {[1..k -> ToolCalls] : k \in 0..n}

\* the running backend streams an update to the callback it was given,
\* stream_handler (lines 78-130); an exception of the handler leaves
\* execute_command
StreamUpdate(c) ==
    /\ Running(c)
    /\ UNCHANGED chat
    /\ call[c].attempts[Len(call[c].attempts)].stream_callback = "stream_handler"
    /\ Recording => Emitted(call[c]) < budget.updates
    /\ \E update \in Updates(budget.tool_calls - Streamed) :
          LET cl == call[c]
              st == Validate(ClosureState(cl), update)
              u == Emitted(cl) + 1
              seen == [cl EXCEPT !.tools_validated = st.tools_validated,
                                 !.validation_errors = st.validation_errors,
                                 !.blocked_tools = st.blocked_tools,
                                 !.tool_calls = @ + Len(update),
                                 !.denied = @ \cup DeniedIn(update, st.validated),
                                 !.denials = @ \o DenialsIn(u, update, st.validated),
                                 !.denied_by = IF budget.traced /\ DeniedIn(update, st.validated) /= {}
                                               THEN @ \cup {cl.pc} ELSE @]
              closure == [tools_validated |-> st.tools_validated,
                          validation_errors |-> st.validation_errors,
                          blocked_tools |-> st.blocked_tools]
          IN /\ UNCHANGED <<budget, shutdown_log>>
             /\ IF st.raised
                THEN \E env_exists \in BOOLEAN :
                     \E e \in Raisable(config, st.blocked_tools, env_exists, cl.pc) :
                        LET failed == [seen EXCEPT !.critical = Append(@, cl.pc), !.errors = Append(@, e),
                                                   !.raisable = Append(@, [blocked_tools |-> st.blocked_tools,
                                                                           env_exists |-> env_exists]),
                                                   !.cut_at = IF Recording
                                                              THEN Append(@, [update |-> u,
                                                                              index |-> FirstCriticalDenial(update)])
                                                              ELSE @,
                                                   !.events = IF Recording
                                                              THEN @ \o HandlerEvents(u, update, st, "none")
                                                              ELSE @]
                        IN /\ call' = [call EXCEPT ![c] = AfterException(failed, e)]
                           /\ sessions' = SessionsAfter(AfterException(failed, e), sessions, now)
                           /\ sdk_failed_count' = CountAfterException(cl, e, sdk_failed_count)
                           /\ failures_since_success' = HistoryAfterException(cl, e, failures_since_success)
                           /\ UNCHANGED <<config, now, returned_ids>>
                ELSE \E outcome \in CallbackOutcomes(cl) :
                        LET handled == [seen EXCEPT !.events = IF Recording
                                                               THEN @ \o HandlerEvents(u, update, st, outcome)
                                                               ELSE @,
                                                    !.at_callback = IF Recording /\ outcome /= "none"
                                                                    THEN <<closure>>
                                                                    ELSE @]
                        IN /\ call' = [call EXCEPT ![c] = AfterCallback(handled, outcome)]
                           /\ UNCHANGED <<config, sdk_failed_count, sessions, now, returned_ids,
                                          failures_since_success>>

\* the session ids the engine may put in its response
EngineIds(cl) == {None, <<"sess_", cl.started>>} \cup (IF cl.claude_session_id = None THEN {} ELSE {cl.claude_session_id})

\* the responses the running backend may return
BackendResponses(cl) ==
    {[content |-> <<"R", cl.pc>>, session_id |-> sid, is_error |-> FALSE, error_type |-> NoneStr,
      cost |-> 1, duration_ms |-> 1, num_turns |-> 1] : sid \in EngineIds(cl)}

\* the running backend returns a response; run_command folds the validation
\* failures in, updates the session and returns (lines 261-263, 292-293, 166-228)
BackendReturns(c) ==
    /\ Running(c)
    /\ UNCHANGED chat
    /\ \E R \in BackendResponses(call[c]) :
          LET cl == [call[c] EXCEPT !.backend_response = <<R>>]
              after == AfterReturn(cl, config, R)
          IN /\ call' = [call EXCEPT ![c] = after]
             /\ sessions' = SessionsAfter(after, sessions, now)
             /\ sdk_failed_count' = CountAfterReturn(cl, sdk_failed_count)
             /\ failures_since_success' = HistoryAfterReturn(cl, failures_since_success)
             /\ returned_ids' = IF after.pc = "returned"
                                 THEN returned_ids \cup {after.response[1].session_id}
                                 ELSE returned_ids
             /\ UNCHANGED <<config, now, budget, shutdown_log>>

\* the running backend raises an error of its own (lines 265-308, 230-237)
BackendRaises(c) ==
    /\ Running(c)
    /\ UNCHANGED chat
    /\ \E text \in BackendErrorTexts :
          LET e == BackendError(text, call[c].pc)
              cl == [call[c] EXCEPT !.errors = Append(@, e)]
          IN /\ call' = [call EXCEPT ![c] = AfterException(cl, e)]
             /\ sessions' = SessionsAfter(AfterException(cl, e), sessions, now)
             /\ sdk_failed_count' = CountAfterException(cl, e, sdk_failed_count)
             /\ failures_since_success' = HistoryAfterException(cl, e, failures_since_success)
             /\ UNCHANGED <<config, now, returned_ids, budget, shutdown_log>>

Next ==
    \E c \in budget.slots :
        \/ RunCommand(c)
        \/ ContinueSession(c)
        \/ StreamUpdate(c)
        \/ BackendReturns(c)
        \/ BackendRaises(c)

Spec == Init /\ [][Next]_vars

(* ----------------------- the steps of stream_handler ---------------------- *)

\* the behaviour is one call, and keeps, for every update of the call, the
\* steps stream_handler takes on it
InitStream ==
    /\ config \in Configs
    /\ sdk_failed_count = 0
    /\ sessions = <<>>
    /\ now = 0
    /\ call = [c \in Slots |-> IdleCall]
    /\ returned_ids = {}
    /\ failures_since_success = 0
    /\ budget = [calls |-> 1, tool_calls |-> MaxToolCalls, updates |-> MaxUpdates, slots |-> {1},
                 places |-> Places, callers |-> Callers, traced |-> FALSE]
    /\ shutdown_log = <<>>
    /\ chat = IdleChat

SpecStream == InitStream /\ [][Next]_vars

(* ------------------------------ calls in flight --------------------------- *)

\* run_command is a coroutine: calls of it may be in flight together, their
\* steps interleaved at the awaits.  The behaviour is two calls of one user
\* in one directory, each with a stream handler.
InitConcurrent ==
    /\ config \in Configs
    /\ sdk_failed_count = 0
    /\ sessions = <<>>
    /\ now = 0
    /\ call = [c \in Slots |-> IdleCall]
    /\ returned_ids = {}
    /\ failures_since_success = 0
    /\ budget = [calls |-> 2, tool_calls |-> MaxToolCalls - 1, updates |-> 0, slots |-> Slots,
                 places |-> SamePlace, callers |-> {cr \in Callers : cr.on_stream},
                 traced |-> FALSE]
    /\ shutdown_log = <<>>
    /\ chat = IdleChat

SpecConcurrent == InitConcurrent /\ [][Next]_vars

(* ------------------- a store that already holds sessions ------------------ *)

\* stores the session manager may hold when a call arrives: sessions of the
\* caller in both directories, a session that kept its placeholder id (its
\* call raised or the engine gave no id) and a session of another user
RestoredStores ==
    {(<<"sess_", 1>> :> SessionRec(1, "A", 1, FALSE)) @@ (<<"sess_", 2>> :> SessionRec(1, "A", 2, FALSE))
        @@ (<<"sess_", 3>> :> SessionRec(1, "B", 3, FALSE)) @@ (<<"temp_", 4>> :> SessionRec(1, "A", 4, TRUE))
        @@ (<<"sess_", 5>> :> SessionRec(2, "A", 5, FALSE)),
     (<<"sess_", 1>> :> SessionRec(1, "A", 6, FALSE)) @@ (<<"sess_", 2>> :> SessionRec(1, "A", 2, FALSE))
        @@ (<<"temp_", 4>> :> SessionRec(1, "B", 4, TRUE)) @@ (<<"sess_", 5>> :> SessionRec(2, "B", 5, FALSE))}

\* the latest time a store has seen
LastClock(store) == CHOOSE t \in {store[k].last_used : k \in DOMAIN store} :
                        \A k \in DOMAIN store : store[k].last_used <= t

\* the orchestrator is constructed over a store with sessions; the
\* behaviour explores the calls that follow, one after the other
InitRestored ==
    /\ config \in Configs
    /\ sdk_failed_count = 0
    /\ sessions \in RestoredStores
    /\ now = LastClock(sessions)
    /\ call = [c \in Slots |-> IdleCall]
    /\ returned_ids = {}
    /\ failures_since_success = 0
    /\ budget = [calls |-> LastClock(sessions) + MaxCalls - 1, tool_calls |-> MaxToolCalls - 1,
                 updates |-> 0, slots |-> {1}, places |-> Places, callers |-> Callers, traced |-> FALSE]
    /\ shutdown_log = <<>>
    /\ chat = IdleChat

SpecRestored == InitRestored /\ [][Next]_vars

(* -------------------------------- shutdown -------------------------------- *)

\* the backend managers the orchestrator holds (lines 36-39)
Held(cfg) == IF cfg.use_sdk THEN {"sdk_manager", "process_manager"} ELSE {"process_manager"}

\* self.manager (lines 42-45)
Manager(cfg) == IF cfg.use_sdk THEN "sdk_manager" ELSE "process_manager"

\* SessionManager.cleanup_expired_sessions: the sessions last used before
\* the cutoff leave the store
cleanup_expired_sessions(store, cutoff) ==
    [k \in {j \in DOMAIN store : store[j].last_used >= cutoff} |-> store[k]]

\* shutdown(): kill_all_processes of self.manager, then cleanup_expired_sessions
Shutdown ==
    /\ shutdown_log = <<>>
    /\ chat = IdleChat
    /\ \E cutoff \in 0..now :
          /\ shutdown_log' = <<[op |-> "kill_all_processes", on |-> Manager(config)],
                               [op |-> "cleanup_expired_sessions", on |-> "session_manager"]>>
          /\ sessions' = cleanup_expired_sessions(sessions, cutoff)
    /\ UNCHANGED <<config, sdk_failed_count, now, call, returned_ids, failures_since_success, budget, chat>>

NextShutdown == Next \/ Shutdown

SpecShutdown == InitRestored /\ [][NextShutdown]_vars

(* --------------------------------- claims -------------------------------- *)

\* the backend calls a call has made so far
Attempts(c) == call[c].attempts

\* an exception text that carries one of the transient patterns
MatchesTransient(e) == \E pat \in TransientPatterns : Contains(e.msg, pat)

\* C1: whatever earlier Response.sessionId the caller passes back, no backend
\* attempt (primary, secondary or direct) is handed a placeholder ("temp_")
\* session id.
C1_NoPlaceholderForwarded ==
    \A c \in Slots : \A i \in 1..Len(Attempts(c)) : ~IsTemp(Attempts(c)[i].session_id)

\* a placeholder id returned by an earlier call is passed back, and the call
\* has gone through both a primary and a secondary attempt
C1_Witness ==
    \E c \in Slots : IsTemp(call[c].session_id) /\ call[c].session_id \in returned_ids /\ Len(Attempts(c)) = 2

\* C2: a run_command call made without a session id hands every backend
\* attempt a null session id and a false continue flag.
C2_NewSessionForwardsNull ==
    \A c \in Slots :
        (call[c].via = "run_command" /\ call[c].session_id = None) =>
            \A i \in 1..Len(Attempts(c)) :
                Attempts(c)[i].session_id = None /\ Attempts(c)[i].continue_session = FALSE

\* a call without a session id that made a primary and a secondary attempt
C2_Witness ==
    \E c \in Slots :
        /\ call[c].via = "run_command" /\ call[c].session_id = None
        /\ Len(Attempts(c)) = 2 /\ Attempts(c)[2].kind = "secondary"

\* C3: a run_command call in which a critical tool (Task, Read, Write, Edit)
\* was denied never returns a Response.
C3_CriticalDenialNeverReturns ==
    \A c \in Slots : call[c].critical /= <<>> => call[c].pc /= "returned"

\* C4: when a critical tool was denied and the call raised, the exception the
\* caller gets is the critical tool-validation error, whichever attempt was
\* streaming.
C4_CriticalErrorPropagates ==
    \A c \in Slots :
        (call[c].critical /= <<>> /\ call[c].pc = "raised") =>
            call[c].exc[1].type = "ClaudeToolValidationError"

\* C5: a call that returns after denials of non-critical tools only returns a
\* Response with is_error true, error_type "tool_validation_failed" and a
\* content that names every tool recorded as blocked.
C5_DeferredDenialFolded ==
    \A c \in Slots :
        (call[c].pc = "returned" /\ ~call[c].tools_validated /\ call[c].critical = <<>>) =>
            /\ call[c].response[1].is_error
            /\ call[c].response[1].error_type = "tool_validation_failed"
            /\ \A name \in call[c].blocked_tools : Contains(call[c].response[1].content, name)

\* a call returned with two different non-critical tools blocked by the allow-list
C5_Witness ==
    \E c \in Slots :
        /\ call[c].pc = "returned" /\ call[c].critical = <<>>
        /\ call[c].blocked_tools = {"Bash", "TaskGroup"}

\* C6: when the primary attempt raised a transient-pattern error and the
\* secondary attempt returned R, the call returns (no exception reaches the
\* caller) and what it returns is R as run_command hands it on.
C6_FallbackReturnsSecondary ==
    \A c \in Slots :
        (/\ Len(Attempts(c)) = 2
         /\ call[c].errors /= <<>> /\ call[c].errors[1].by = "primary" /\ MatchesTransient(call[c].errors[1])
         /\ call[c].backend_response /= <<>>) =>
            /\ call[c].pc = "returned"
            /\ call[c].exc = <<>>
            /\ call[c].backend_response[1].content = <<"R", "secondary">>
            /\ call[c].response[1].cost = call[c].backend_response[1].cost
            /\ call[c].tools_validated => call[c].response[1].content = <<"R", "secondary">>

\* the secondary attempt returned after a transient primary failure
C6_Witness ==
    \E c \in Slots :
        /\ Len(Attempts(c)) = 2 /\ call[c].pc = "returned" /\ call[c].tools_validated
        /\ MatchesTransient(call[c].errors[1])

\* C7: the consecutive-failure counter equals the number of primary transient
\* failures since the latest primary success (or since construction).
C7_CounterTracksPrimaryFailures == sdk_failed_count = failures_since_success

\* a primary success of a later call reset a counter that a failure had raised
C7_Witness ==
    \E c \in Slots : call[c].count_before = 1 /\ call[c].pc = "returned" /\ sdk_failed_count = 0

\* C8: when the primary attempt raised E1 (transient) and the secondary
\* attempt raised E2, the call raises E1 and not E2.
C8_OriginalErrorPropagates ==
    \A c \in Slots :
        Len(call[c].errors) = 2 =>
            /\ call[c].pc = "raised"
            /\ call[c].exc = <<call[c].errors[1]>>
            /\ call[c].exc /= <<call[c].errors[2]>>

\* both attempts raised
C8_Witness ==
    \E c \in Slots : Len(call[c].errors) = 2 /\ call[c].errors[2].type = "BackendError"

\* C9: a primary error that matches no transient pattern is raised to the
\* caller as it is, without a secondary attempt and with the counter as it
\* was before the call.
C9_FatalErrorNoFallback ==
    \A c \in Slots :
        (/\ call[c].errors /= <<>>
         /\ call[c].errors[1].by = "primary"
         /\ ~MatchesTransient(call[c].errors[1])) =>
            /\ call[c].pc = "raised"
            /\ call[c].exc = <<call[c].errors[1]>>
            /\ Len(Attempts(c)) = 1
            /\ sdk_failed_count = call[c].count_before

\* the primary attempt raised an error without a transient pattern while the
\* counter was not zero
C9_Witness ==
    \E c \in Slots :
        /\ call[c].errors /= <<>> /\ call[c].errors[1].by = "primary"
        /\ ~MatchesTransient(call[c].errors[1])
        /\ call[c].count_before = 1

\* C10: a call makes at most one primary and at most one secondary attempt,
\* the secondary only after the primary of the same call failed with a
\* transient-pattern error, and no backend runs once the secondary has ended.
C10_AtMostOneFallback ==
    \A c \in Slots :
        /\ Len(Attempts(c)) <= 2
        /\ \A i \in 1..Len(Attempts(c)) :
              /\ Attempts(c)[i].kind = "primary" => i = 1
              /\ Attempts(c)[i].kind = "secondary" =>
                    /\ i = 2
                    /\ Attempts(c)[1].kind = "primary"
                    /\ Attempts(c)[1].outcome /= "running"
                    /\ call[c].errors /= <<>>
                    /\ call[c].errors[1].by = "primary"
                    /\ MatchesTransient(call[c].errors[1])
              /\ (Attempts(c)[i].kind = "secondary" /\ Attempts(c)[i].outcome /= "running") => Over(c)
              /\ (i < Len(Attempts(c))) => Attempts(c)[i].outcome /= "running"

\* a secondary attempt has ended in an error
C10_Witness ==
    \E c \in Slots :
        /\ Len(Attempts(c)) = 2 /\ Attempts(c)[2].kind = "secondary" /\ Attempts(c)[2].outcome = "raised"

\* C11: with the SDK disabled by configuration, every call makes exactly one
\* backend attempt, on the subprocess backend and never on the SDK, leaves
\* the failure counter as it was and raises the error of that attempt as it is.
C11_SdkDisabledSingleAttempt ==
    \A c \in Slots :
        (~config.use_sdk /\ call[c].pc \notin {"idle", "none"}) =>
            /\ Len(Attempts(c)) = 1
            /\ Attempts(c)[1].kind = "direct"
            /\ sdk_failed_count = call[c].count_before
            /\ call[c].errors /= <<>> =>
                  /\ call[c].pc = "raised"
                  /\ call[c].exc = <<call[c].errors[1]>>
                  /\ Len(call[c].errors) = 1

\* with the SDK disabled the subprocess raised an error that carries a
\* transient pattern, and the call raised it
C11_Witness ==
    \E c \in Slots :
        /\ ~config.use_sdk /\ call[c].pc = "raised"
        /\ call[c].errors /= <<>>
        /\ call[c].errors[1].type = "BackendError" /\ MatchesTransient(call[c].errors[1])

\* the sessions of a store that continue_session(user_id, working_directory)
\* may resume: of that user, in that directory, with an id that is no placeholder
Resumable(store, user_id, working_directory) ==
    {k \in DOMAIN store :
        /\ store[k].user_id = user_id
        /\ store[k].project_path = working_directory
        /\ k[1] /= "temp_"}

\* C12: a continue_session call that delegates hands run_command the id of
\* the user's session in that directory, not a placeholder, that was used
\* last; sessions of other directories and placeholder sessions are never taken.
C12_ContinueSelectsLatest ==
    \A c \in Slots :
        (call[c].via = "continue_session" /\ call[c].pc /= "none") =>
            LET before == call[c].store_before
                chosen == call[c].session_id
            IN /\ chosen \in Resumable(before, call[c].user_id, call[c].working_directory)
               /\ \A k \in Resumable(before, call[c].user_id, call[c].working_directory) :
                     before[k].last_used <= before[chosen].last_used
               /\ Attempts(c)[1].session_id = chosen
               /\ Attempts(c)[1].continue_session

\* a continue_session call chose among two sessions of the directory while
\* the store also held a later placeholder session there and a session elsewhere
C12_Witness ==
    \E c \in Slots :
        /\ call[c].via = "continue_session" /\ call[c].pc /= "none"
        /\ Cardinality(Resumable(call[c].store_before, call[c].user_id, call[c].working_directory)) = 2
        /\ \E k \in DOMAIN call[c].store_before :
              /\ k[1] = "temp_"
              /\ call[c].store_before[k].project_path = call[c].working_directory
              /\ call[c].store_before[k].last_used > call[c].store_before[call[c].session_id].last_used
        /\ \E k \in DOMAIN call[c].store_before :
              call[c].store_before[k].project_path /= call[c].working_directory

\* C13: continue_session returns None exactly when the user has no session
\* with a real id for the directory; then no backend attempt is made and the
\* store is left as it was.
C13_ContinueNoneWhenNoSession ==
    \A c \in Slots :
        call[c].via = "continue_session" =>
            /\ call[c].pc = "none" <=>
                  Resumable(call[c].store_before, call[c].user_id, call[c].working_directory) = {}
            /\ call[c].pc = "none" => (Attempts(c) = <<>> /\ sessions = call[c].store_before)

\* continue_session returned None although the store holds a placeholder
\* session of the user in the directory and a session of another user there
C13_Witness ==
    \E c \in Slots :
        /\ call[c].via = "continue_session" /\ call[c].pc = "none"
        /\ \E k, j \in DOMAIN sessions :
              /\ k[1] = "temp_" /\ sessions[k].user_id = call[c].user_id
              /\ sessions[k].project_path = call[c].working_directory
              /\ sessions[j].user_id /= call[c].user_id
              /\ sessions[j].project_path = call[c].working_directory

\* the allow-list an administrator block tells to configure
AllowListIn(msg) ==
    LET first == CHOOSE k \in 1..Len(msg) : msg[k] = "CLAUDE_ALLOWED_TOOLS="
        last == CHOOSE k \in 1..Len(msg) : msg[k] = "Or modify the default in src/config/settings.py:"
    IN SubSeq(msg, first + 1, last - 1)

\* C14: the allow-list in the administrator block of a tool-validation error
\* is the configured allow-list followed by the blocked tools that are not
\* in it, without duplicates, in that order.
C14_MergedAllowList ==
    \A c \in Slots : \A i \in 1..Len(call[c].errors) :
        (/\ call[c].errors[i].type = "ClaudeToolValidationError"
         /\ Contains(call[c].errors[i].msg, "CLAUDE_ALLOWED_TOOLS=")) =>
            AllowListIn(call[c].errors[i].msg)
                = Dedupe(AllowedOrEmpty(config) \o call[c].errors[i].blocked_tools)

\* C15: the session id of a Response that run_command returns is never a
\* placeholder id, also when the backend's response carries no session id.
C15_ReturnedIdNeverPlaceholder ==
    \A c \in Slots : call[c].pc = "returned" => ~IsTemp(call[c].response[1].session_id)

\* C16: a call that resolved to a continuing session returns a Response with
\* the session id it was called for, whatever id the backend's response has.
C16_ContinuingIdKept ==
    \A c \in Slots :
        (call[c].pc = "returned" /\ ~call[c].session.is_new_session) =>
            call[c].response[1].session_id = call[c].session.session_id

\* C17: shutdown kills the processes of every backend manager the
\* orchestrator holds, and purges the expired sessions only after the kills.
C17_ShutdownKillsEveryBackend ==
    shutdown_log /= <<>> =>
        /\ \A b \in Held(config) :
              \E i \in 1..Len(shutdown_log) :
                  shutdown_log[i].op = "kill_all_processes" /\ shutdown_log[i].on = b
        /\ \E p \in 1..Len(shutdown_log) :
              /\ shutdown_log[p].op = "cleanup_expired_sessions"
              /\ \A i \in 1..Len(shutdown_log) : shutdown_log[i].op = "kill_all_processes" => i < p

\* the tool calls of the update emitted at place p of a history that the
\* history shows validated
ValidatedOf(ev, p) ==
    {i \in 1..ev[p].index : \E q \in (p + 1)..Len(ev) : ev[q] = Event("validate", ev[p].update, i)}

\* the updates of a history that were left before their last tool call
CutShort(ev) == {p \in 1..Len(ev) : ev[p].kind = "emit" /\ ValidatedOf(ev, p) /= 1..ev[p].index}

\* C18: in the history of a call, an update is handed to the caller only
\* after each of its tool calls has been validated, the tool calls of an
\* update are validated in their order, no tool call is validated after its
\* update was handed on, and the updates are handed on in the order of
\* emission; only an update in which a critical tool was denied is left
\* before its last tool call, and it is not handed on.
C18_ValidateThenForward ==
    \A c \in Slots :
        LET ev == call[c].events
        IN /\ Cardinality(CutShort(ev)) <= Len(call[c].critical)
           /\ \A p \in CutShort(ev) :
                 /\ \E k \in 1..(ev[p].index - 1) : ValidatedOf(ev, p) = 1..k
                 /\ \A q \in 1..Len(ev) : ev[q] /= Event("forward", ev[p].update, 0)
           /\ \A p \in 1..Len(ev) :
              /\ ev[p].kind = "forward" =>
                    \E e \in 1..(p - 1) :
                        /\ ev[e].kind = "emit" /\ ev[e].update = ev[p].update
                        /\ \A i \in 1..ev[e].index :
                              \E q \in (e + 1)..(p - 1) : ev[q] = Event("validate", ev[p].update, i)
              /\ \A q \in (p + 1)..Len(ev) :
                    /\ (ev[p].kind = "validate" /\ ev[q].kind = "validate" /\ ev[p].update = ev[q].update)
                          => ev[p].index < ev[q].index
                    /\ (ev[p].kind = "forward" /\ ev[q].kind = "forward") => ev[p].update < ev[q].update
                    /\ (ev[p].kind = "forward" /\ ev[q].kind = "validate") => ev[p].update < ev[q].update
                    /\ (ev[p].kind = "emit" /\ ev[q].kind = "emit") => ev[p].update < ev[q].update

\* two updates were handed to the caller, one of them with two tool calls
C18_Witness ==
    \E c \in Slots :
        /\ Cardinality({p \in 1..Len(call[c].events) : call[c].events[p].kind = "forward"}) = 2
        /\ \E p \in 1..Len(call[c].events) :
              call[c].events[p].kind = "emit" /\ call[c].events[p].index = 2

\* C19: when the caller's on_stream raised on the last update of a call, the
\* validation state is what the validation of that update left, an exception
\* the call raises is one a backend or the validation raised, and the call
\* returns once the backend has returned its response.
C19_CallbackErrorContained ==
    \A c \in Slots :
        (call[c].events /= <<>> /\ call[c].events[Len(call[c].events)].kind = "callback_raised") =>
            /\ call[c].at_callback = <<[tools_validated |-> call[c].tools_validated,
                                        validation_errors |-> call[c].validation_errors,
                                        blocked_tools |-> call[c].blocked_tools]>>
            /\ call[c].pc \in {"primary", "secondary", "direct", "returned", "raised"}
            /\ call[c].pc = "raised" =>
                  \E i \in 1..Len(call[c].errors) : call[c].exc = <<call[c].errors[i]>>
            /\ call[c].backend_response /= <<>> =>
                  /\ call[c].pc = "returned"
                  /\ call[c].response[1].cost = call[c].backend_response[1].cost

\* on_stream raised on the last update and the call returned
C19_Witness ==
    \E c \in Slots :
        /\ call[c].events /= <<>> /\ call[c].events[Len(call[c].events)].kind = "callback_raised"
        /\ call[c].pc = "returned"

\* the tool names a text mentions
NamesIn(text) == {name \in ToolNames : Contains(text, name)}

\* C20: with calls in flight together, a call in which no tool was denied
\* never returns a Response marked tool_validation_failed, and the tool
\* names a call reports as blocked (in the content of its Response or in
\* the error it raised) are names denied in that call.
C20_DenialsStayInTheirCall ==
    \A c \in Slots :
        /\ call[c].pc = "returned" =>
              /\ call[c].response[1].error_type = "tool_validation_failed" => call[c].denied /= {}
              /\ NamesIn(call[c].response[1].content) \subseteq call[c].denied
        /\ \A i \in 1..Len(call[c].errors) :
              call[c].errors[i].type = "ClaudeToolValidationError" =>
                  NamesIn(call[c].errors[i].blocked_tools) \subseteq call[c].denied

\* a call returned an unmarked Response although it began after a call that
\* is still in flight and has had a tool denied
C20_Witness ==
    \E c, d \in Slots :
        /\ call[c].pc \in {"primary", "secondary", "direct"} /\ call[c].denied /= {}
        /\ call[d].started > call[c].started
        /\ call[d].pc = "returned" /\ call[d].denied = {}
        /\ call[d].response[1].error_type = NoneStr

(* --------------------------- remediation texts ---------------------------- *)

\* the remediation texts a call has produced on a tool block, each with the
\* blocked tools it was written for: the messages of its tool-validation
\* errors that name blocked tools, and the content of its Response when
\* tools blocked by the allow-list were folded into it
RemediationTexts(c) ==
    {[text |-> call[c].errors[i].msg, blocked |-> call[c].errors[i].blocked_tools] :
        i \in {j \in 1..Len(call[c].errors) :
                  /\ call[c].errors[j].type = "ClaudeToolValidationError"
                  /\ call[c].errors[j].blocked_tools /= <<>>}}
    \cup {[text |-> call[c].response[i].content, blocked |-> ExtractBlocked(call[c].validation_errors)] :
            i \in {j \in 1..Len(call[c].response) :
                      /\ call[c].response[j].error_type = "tool_validation_failed"
                      /\ ExtractBlocked(call[c].validation_errors) /= <<>>}}

\* C21: every remediation text produced on a tool block, the message of the
\* critical validation error and the content of the deferred Response alike,
\* lists the blocked tool names, lists the currently allowed tools and
\* contains an administrator block with an allow-list to configure.
C21_RemediationTextComplete ==
    \A c \in Slots : \A r \in RemediationTexts(c) :
        /\ \A i \in 1..Len(r.blocked) : Contains(r.text, r.blocked[i])
        /\ Contains(r.text, "Currently allowed tools:")
        /\ \A i \in 1..Len(AllowedOrEmpty(config)) : Contains(r.text, AllowedOrEmpty(config)[i])
        /\ Contains(r.text, "For Administrators:")
        /\ Contains(r.text, "CLAUDE_ALLOWED_TOOLS=")

\* C22: the remediation text is determined by the tool denials a call has
\* seen and the configured allow-list: wherever a call raises the error for
\* a critical tool, the code can produce one text only, the order in which
\* the blocked tools are listed and merged included.
C22_RemediationDeterministic ==
    \A c \in Slots : \A i \in 1..Len(call[c].raisable) :
        \A e1, e2 \in Raisable(config, call[c].raisable[i].blocked_tools, call[c].raisable[i].env_exists,
                                call[c].critical[i]) : e1.msg = e2.msg

(* ------------------------ what the backends are passed --------------------- *)

\* C23: in every call the continue flag passed to each backend attempt is
\* true exactly when a session id was supplied and the resolved session is
\* not new, and the session id passed is None when the resolved session is
\* new and the session's id otherwise.
C23_ContinueFlagAndIdForwarded ==
    \A c \in Slots : \A i \in 1..Len(call[c].attempts) :
        /\ call[c].attempts[i].continue_session
              = (Truthy(call[c].session_id) /\ ~call[c].session.is_new_session)
        /\ call[c].attempts[i].session_id
              = (IF call[c].session.is_new_session THEN None ELSE call[c].session.session_id)
        /\ (call[c].attempts[i].session_id = None) = call[c].session.is_new_session

\* a call that supplied the id of a continuing session was answered by the
\* fallback: both attempts were passed the flag and the session's id
C23_Witness ==
    \E c \in Slots :
        /\ Len(call[c].attempts) = 2
        /\ Truthy(call[c].session_id)
        /\ ~call[c].session.is_new_session
        /\ \A i \in 1..2 : /\ call[c].attempts[i].continue_session
                            /\ call[c].attempts[i].session_id = call[c].session.session_id

(* --------------------------- the steps of a call --------------------------- *)

\* C24: in every call that returns, the session was resolved before the
\* backend ran, the backend's response was reconciled with the validation
\* failures before the store saw it, update_session was called exactly once
\* and with that reconciled response, and the call returned after it: the
\* store is handed nothing while a backend runs, and what it is handed has
\* the same is_error, error_type and content as the response returned.
C24_StoreReceivesReconciledResponse ==
    \A c \in Slots :
        /\ Running(c) =>
              /\ call[c].session.session_id \in DOMAIN sessions
              /\ call[c].stored = <<>>
              /\ call[c].response = <<>>
        /\ call[c].pc = "returned" =>
              /\ call[c].backend_response /= <<>>
              /\ Len(call[c].stored) = 1
              /\ Len(call[c].response) = 1
              /\ [call[c].stored[1] EXCEPT !.session_id = call[c].response[1].session_id]
                    = call[c].response[1]
              /\ ~call[c].tools_validated =>
                    /\ call[c].stored[1].is_error
                    /\ call[c].stored[1].error_type = "tool_validation_failed"
                    /\ call[c].stored[1].content /= call[c].backend_response[1].content
              /\ \E k \in DOMAIN sessions : sessions[k].last_used = now

\* a call with a denied tool returned: the store was handed the response
\* with the failure folded in, not the one the backend gave
C24_Witness ==
    \E c \in Slots :
        /\ call[c].pc = "returned"
        /\ ~call[c].tools_validated
        /\ ~call[c].backend_response[1].is_error
        /\ call[c].stored = <<[call[c].response[1] EXCEPT !.session_id = call[c].backend_response[1].session_id]>>
        /\ call[c].stored[1].is_error

\* C25: when the backend execution of a call ends in an exception, the call
\* raises that exception, returns no Response and does not call
\* update_session: every session the store held before the call is as it
\* was, and the session the call resolved is as get_or_create_session left it.
C25_ExceptionLeavesStoreUntouched ==
    \A c \in Slots : call[c].pc = "raised" =>
        /\ call[c].response = <<>>
        /\ call[c].stored = <<>>
        /\ Len(call[c].exc) = 1
        /\ \E i \in 1..Len(call[c].errors) : call[c].errors[i] = call[c].exc[1]
        /\ \A k \in DOMAIN call[c].store_before :
              k \in DOMAIN sessions /\ sessions[k] = call[c].store_before[k]
        /\ \A k \in DOMAIN sessions \ DOMAIN call[c].store_before :
              /\ k = call[c].session.session_id
              /\ sessions[k] = SessionRec(call[c].user_id, call[c].working_directory, call[c].started, TRUE)

\* a call that continued a session of the store raised after its backend
\* failed: the store is the store of before the call
C25_Witness ==
    \E c \in Slots :
        /\ call[c].pc = "raised"
        /\ call[c].session.session_id \in DOMAIN call[c].store_before
        /\ ~call[c].session.is_new_session
        /\ call[c].exc[1].type = "BackendError"
        /\ sessions = call[c].store_before

\* C26: the fallback attempt of a call is given the same prompt, working
\* directory, session id and continue flag as the primary attempt of that
\* call, and the same wrapped callback, stream_handler, so that the tool
\* calls it streams go through the same validation.
C26_FallbackGivenSameArguments ==
    \A c \in Slots : \A i \in 1..Len(call[c].attempts) :
        call[c].attempts[i].kind = "secondary" =>
            /\ i = 2
            /\ call[c].attempts[1].kind = "primary"
            /\ call[c].attempts[i].prompt = call[c].attempts[1].prompt
            /\ call[c].attempts[i].working_directory = call[c].attempts[1].working_directory
            /\ call[c].attempts[i].session_id = call[c].attempts[1].session_id
            /\ call[c].attempts[i].continue_session = call[c].attempts[1].continue_session
            /\ call[c].attempts[i].stream_callback = call[c].attempts[1].stream_callback
            /\ call[c].attempts[i].stream_callback = "stream_handler"

\* the fallback of a call that continues a session streamed a tool call and
\* the handler denied it
C26_Witness ==
    \E c \in Slots :
        /\ Len(call[c].attempts) = 2
        /\ call[c].attempts[2].continue_session
        /\ call[c].attempts[2].session_id /= None
        /\ Len(call[c].critical) > 0
        /\ call[c].critical[Len(call[c].critical)] = "secondary"

\* C27: the model preference resolved for the user of a call is passed to
\* every backend attempt of that call: primary, fallback and direct.
C27_ModelPreferenceForwarded ==
    \A c \in Slots : \A i \in 1..Len(call[c].attempts) :
        call[c].attempts[i].model = call[c].user_model_pref

(* ----------------------- the validation state of a call -------------------- *)

\* the validation state of a call agrees with the denials of the call so far
ValidationStateAgrees(c) ==
    /\ call[c].tools_validated = (call[c].denials = <<>>)
    /\ call[c].validation_errors
          = [i \in 1..Len(call[c].denials) |-> DenialReason(call[c].denials[i])]
    /\ call[c].blocked_tools
          = {call[c].denials[i].name :
                i \in {j \in 1..Len(call[c].denials) : call[c].denials[j].verdict = "not_allowed"}}

\* C28: at every point of a call tools_validated is false exactly when a
\* tool call has been denied so far, validation_errors holds the reasons of
\* the denials in the order they occurred, and blocked_tools is the set of
\* the names denied with the marker "Tool not allowed:"; within a call
\* tools_validated never goes back to true.
C28_ValidationStateTracksDenials ==
    /\ [](\A c \in Slots : ValidationStateAgrees(c))
    /\ [][\A c \in Slots :
             (~call[c].tools_validated /\ call'[c].started = call[c].started /\ call'[c].pc /= "none")
                => ~call'[c].tools_validated]_vars

\* a tool call of the first update was denied with the marker, and the
\* second update brought a tool call that the validator allows
C28_Witness ==
    \E c \in Slots :
        /\ call[c].denials = <<[name |-> "Bash", verdict |-> "not_allowed", update |-> 1]>>
        /\ Emitted(call[c]) = 2
        /\ call[c].tool_calls = 2
        /\ ~call[c].tools_validated
        /\ call[c].blocked_tools = {"Bash"}

(* --------------------------- deferred denials ----------------------------- *)

\* the tools whose denial ends the call at once
FailFastTools == {"Task", "Read", "Write", "Edit"}

\* the updates of a call in which one of those tools was denied
FailFastUpdates(c) ==
    {call[c].denials[j].update : j \in {k \in 1..Len(call[c].denials) : call[c].denials[k].name \in FailFastTools}}

\* the update emitted at place p of the history of a call went through the
\* whole handler: each tool call validated, then handed to on_stream if the
\* caller gave one
Handled(c, p) ==
    LET ev == call[c].events
    IN /\ ValidatedOf(ev, p) = 1..ev[p].index
       /\ call[c].on_stream => \E q \in (p + 1)..Len(ev) : ev[q] = Event("forward", ev[p].update, 0)

\* C29: the denial of a tool that is not critical does not raise from the
\* handler (the handler has raised once for every denial of a critical tool
\* and never else); the update that held it and the later updates of the
\* call are validated and handed to the caller's on_stream, unless a
\* critical tool was denied in them; and the failure is written to the
\* Response once the backend has returned, not before.
C29_DeferredDenialDoesNotRaise ==
    \A c \in Slots :
        /\ Len(call[c].critical)
              = Cardinality({j \in 1..Len(call[c].denials) : call[c].denials[j].name \in FailFastTools})
        /\ \A i \in 1..Len(call[c].denials) :
              call[c].denials[i].name \notin FailFastTools =>
                  /\ \A p \in 1..Len(call[c].events) :
                        (/\ call[c].events[p].kind = "emit"
                         /\ call[c].events[p].update >= call[c].denials[i].update
                         /\ call[c].events[p].update \notin FailFastUpdates(c)) => Handled(c, p)
                  /\ Running(c) => call[c].response = <<>>
                  /\ call[c].pc = "returned" =>
                        /\ ~call[c].backend_response[1].is_error
                        /\ call[c].response[1].is_error
                        /\ call[c].response[1].error_type = "tool_validation_failed"

\* Bash was denied in the first update; that update and a second one with a
\* tool call were handed to the caller, and the call returned the failure
C29_Witness ==
    \E c \in Slots :
        /\ call[c].denials = <<[name |-> "Bash", verdict |-> "not_allowed", update |-> 1]>>
        /\ call[c].tool_calls = 2
        /\ \A u \in 1..2 : \E p \in 1..Len(call[c].events) : call[c].events[p] = Event("forward", u, 0)
        /\ call[c].pc = "returned"
        /\ call[c].response[1].is_error

\* the tool-validation errors the handler of a call has raised, in order
RaisedByHandler(c) ==
    SelectSeq(call[c].errors, LAMBDA e : e.type = "ClaudeToolValidationError")

\* the place among the denials of a call of the k-th denial that ended an
\* update at once
FailFastDenial(c, k) ==
    CHOOSE j \in 1..Len(call[c].denials) :
        /\ call[c].denials[j].name \in FailFastTools
        /\ Cardinality({m \in 1..j : call[c].denials[m].name \in FailFastTools}) = k

\* C30: the error raised on the denial of a critical tool carries as its
\* blocked tools the names recorded in blocked_tools up to and including
\* that denial, and as its allowed tools the configured allow-list (the
\* empty list when none is configured); the name of the denied critical tool
\* is among its blocked tools.
C30_CriticalErrorCarriesBlockedTools ==
    \A c \in Slots : \A k \in 1..Len(RaisedByHandler(c)) :
        LET e == RaisedByHandler(c)[k]
            j == FailFastDenial(c, k)
        IN /\ {e.blocked_tools[i] : i \in 1..Len(e.blocked_tools)}
                 = {call[c].denials[m].name :
                       m \in {n \in 1..j : HasMarker(DenialReason(call[c].denials[n]))}}
           /\ e.allowed_tools = AllowedOrEmpty(config)
           /\ \E i \in 1..Len(e.blocked_tools) : e.blocked_tools[i] = call[c].denials[j].name

(* ------------------------- the content of a failure ------------------------ *)

\* the reasons of the denials of a call, in the order of the denials
ReasonsOf(c) == [i \in 1..Len(call[c].denials) |-> DenialReason(call[c].denials[i])]

C32_CounterUpdatesNeverLost ==
    /\ [](sdk_failed_count >= 0)
    /\ [][/\ \A c \in Slots :
              /\ (call[c].pc = "primary" /\ call'[c].pc = "secondary")
                    => sdk_failed_count' = sdk_failed_count + 1
              /\ (call[c].pc = "primary" /\ call'[c].pc = "returned") => sdk_failed_count' = 0
          /\ (\A c \in Slots : call[c].pc = "primary" => call'[c].pc \notin {"secondary", "returned"})
                => sdk_failed_count' = sdk_failed_count]_vars

\* the primary attempts of two calls in flight together both failed, and
\* both fallbacks are running
C32_Witness ==
    /\ call[1].pc = "secondary"
    /\ call[2].pc = "secondary"
    /\ sdk_failed_count = 2

(* ------------------- critical denials and the fallback --------------------- *)

\* C33: when the handler raised for a critical tool while the primary
\* attempt of a call was streaming, that call makes no other attempt, it
\* raises, and the counter is what it was when the call began.
C33_CriticalDenialNoFallback ==
    \A c \in Slots :
        (call[c].critical /= <<>> /\ call[c].critical[1] = "primary") =>
            /\ Len(call[c].attempts) = 1
            /\ call[c].pc = "raised"
            /\ sdk_failed_count = call[c].count_before

(* ------------------ one validation state for both attempts ----------------- *)

\* the behaviour is one call, and keeps what the lookup of the user gave
\* and, for every denial, the attempt that streamed the tool call
InitTraced ==
    /\ config \in Configs
    /\ sdk_failed_count = 0
    /\ sessions = <<>>
    /\ now = 0
    /\ call = [c \in Slots |-> IdleCall]
    /\ returned_ids = {}
    /\ failures_since_success = 0
    /\ budget = [calls |-> 1, tool_calls |-> MaxToolCalls, updates |-> 0, slots |-> {1},
                 places |-> SamePlace, callers |-> Callers, traced |-> TRUE]
    /\ shutdown_log = <<>>
    /\ chat = IdleChat

SpecTraced == InitTraced /\ [][Next]_vars

\* C34: when a tool that is not critical was denied while the primary
\* attempt of a call streamed, the primary attempt failed with a transient
\* error and the fallback returned without a denial of its own, the Response
\* of the call is marked is_error with error_type "tool_validation_failed".
C34_DenialOutlivesFallback ==
    \A c \in Slots :
        (/\ call[c].pc = "returned"
         /\ Len(call[c].attempts) = 2
         /\ call[c].denied_by = {"primary"}
         /\ call[c].critical = <<>>) =>
            /\ call[c].response[1].is_error
            /\ call[c].response[1].error_type = "tool_validation_failed"
            /\ ~call[c].backend_response[1].is_error

\* Bash was denied while the primary attempt streamed, the primary attempt
\* raised an error of the backend and the fallback returned
C34_Witness ==
    \E c \in Slots :
        /\ call[c].pc = "returned"
        /\ Len(call[c].attempts) = 2
        /\ call[c].denied_by = {"primary"}
        /\ call[c].denied = {"Bash"}
        /\ call[c].errors[1].type = "BackendError"
        /\ call[c].response[1].is_error

(* ------------------------ what a call leaves alone ------------------------- *)

\* C35: when no tool call was denied in a call, the Response returned has
\* the content, is_error, error_type, cost, duration_ms and num_turns of the
\* response of the backend; the session id is the only field that may differ.
C35_ResponseKeptWhenNoDenial ==
    \A c \in Slots :
        (call[c].pc = "returned" /\ call[c].denials = <<>>) =>
            /\ call[c].response[1].content = call[c].backend_response[1].content
            /\ call[c].response[1].is_error = call[c].backend_response[1].is_error
            /\ call[c].response[1].error_type = call[c].backend_response[1].error_type
            /\ call[c].response[1].cost = call[c].backend_response[1].cost
            /\ call[c].response[1].duration_ms = call[c].backend_response[1].duration_ms
            /\ call[c].response[1].num_turns = call[c].backend_response[1].num_turns
            /\ DOMAIN call[c].response[1] = DOMAIN call[c].backend_response[1]

\* a call whose tool calls were all allowed returned the response of the
\* fallback with another session id than the backend gave
C35_Witness ==
    \E c \in Slots :
        /\ call[c].pc = "returned"
        /\ call[c].denials = <<>>
        /\ call[c].tool_calls > 0
        /\ Len(call[c].attempts) = 2
        /\ call[c].response[1].session_id /= call[c].backend_response[1].session_id

(* ------------------------- after a critical denial ------------------------- *)

\* the place in the history of a call where update u was emitted
EmittedAt(c, u) ==
    CHOOSE p \in 1..Len(call[c].events) : call[c].events[p].kind = "emit" /\ call[c].events[p].update = u

\* C36: once a critical tool call of an update is denied, the tool calls of
\* the update after it are not validated, the update is not handed to the
\* caller's on_stream, and the attempt streams no later update: an update
\* after it is one of the fallback that followed a primary attempt.
C36_NothingAfterCriticalDenial ==
    \A c \in Slots :
        /\ Len(call[c].cut_at) = Len(call[c].critical)
        /\ \A n \in 1..Len(call[c].cut_at) :
              LET u == call[c].cut_at[n].update
                  ev == call[c].events
              IN /\ ValidatedOf(ev, EmittedAt(c, u)) = 1..call[c].cut_at[n].index
                 /\ \A q \in 1..Len(ev) : ev[q].update = u => ev[q].kind \in {"emit", "validate"}
                 /\ \/ call[c].critical[n] = "primary" /\ Len(call[c].attempts) = 2
                    \/ \A q \in 1..Len(ev) : ev[q].update <= u

\* Read, the first of two tool calls of the second update, was denied
C36_Witness ==
    \E c \in Slots :
        /\ call[c].cut_at = <<[update |-> 2, index |-> 1]>>
        /\ call[c].events[EmittedAt(c, 2)].index = 2
        /\ call[c].on_stream
        /\ call[c].pc = "raised"

(* --------------------------- the lookup of the user ------------------------ *)

\* C37: when the lookup of the user's model preference raises or gives no
\* user, the call still invokes the backend, with no model preference; an
\* exception of the call is one a backend or the validation raised.
C37_LookupFailureDoesNotFailCall ==
    \A c \in Slots :
        call[c].lookup \in {"raises", "no_user"} =>
            /\ call[c].user_model_pref = NoneStr
            /\ call[c].attempts /= <<>>
            /\ \A i \in 1..Len(call[c].attempts) : call[c].attempts[i].model = NoneStr
            /\ \A i \in 1..Len(call[c].errors) :
                  call[c].errors[i].type \in {"BackendError", "ClaudeToolValidationError"}
            /\ call[c].pc = "raised" => \E i \in 1..Len(call[c].errors) : call[c].exc = <<call[c].errors[i]>>

\* the lookup raised and the call returned the response of the SDK
C37_Witness ==
    \E c \in Slots :
        /\ call[c].lookup = "raises"
        /\ call[c].pc = "returned"
        /\ call[c].attempts[1].kind = "primary"
        /\ Len(call[c].attempts) = 1

(* ------------------------ the chat command handlers ----------------------- *)

\* the user of the chat
ChatUser == 1

\* the facade is left alone by a step of a chat handler
FacadeUnchanged ==
    UNCHANGED <<config, sdk_failed_count, sessions, now, call, returned_ids, failures_since_success,
                budget, shutdown_log>>

\* /new (command.py 110-125): the stored session id is cleared
NewSession ==
    /\ chat' = [chat EXCEPT !.claude_session_id = None, !.session_started = TRUE]
    /\ FacadeUnchanged

\* /end (command.py 716-738): with no stored session id the handler returns
\* early, else it clears the id
EndSession ==
    /\ Truthy(chat.claude_session_id)
    /\ chat' = [chat EXCEPT !.claude_session_id = None, !.session_started = FALSE]
    /\ FacadeUnchanged

\* a successful /cd (command.py 460-464): the resolved directory becomes the
\* current one and the stored session id is cleared, with no await between
ChangeDirectory(resolved_path) ==
    /\ chat' = [chat EXCEPT !.current_directory = resolved_path, !.claude_session_id = None]
    /\ FacadeUnchanged

\* /continue up to its status message (command.py 154-187, 197-202): the
\* handler reads the current directory and the stored session id, then
\* awaits reply_text
ContinueRead(c) ==
    /\ chat.handler[c].pc = "idle"
    /\ Over(c)
    /\ now < budget.calls
    /\ chat' = [chat EXCEPT !.handler[c] = [pc |-> "status", current_dir |-> chat.current_directory,
                                            claude_session_id |-> chat.claude_session_id]]
    /\ FacadeUnchanged

\* /continue after its status message (command.py 190-208): the facade is
\* called with the directory and the id the handler read, run_command for a
\* stored id and continue_session for none; or reply_text raised and the
\* handler ends in its except branch (264)
ContinueCall(c) ==
    /\ chat.handler[c].pc = "status"
    /\ LET h == chat.handler[c]
       IN \/ /\ \E prompt \in ContinuePrompts, caller \in {cr \in budget.callers : ~cr.on_stream} :
                   IF Truthy(h.claude_session_id)
                   THEN Begin(c, "run_command", IF prompt = NoneStr THEN "" ELSE prompt, h.current_dir,
                              ChatUser, h.claude_session_id, FALSE, caller.lookup)
                   ELSE Continue(c, prompt, ChatUser, h.current_dir, FALSE, caller.lookup)
             /\ chat' = [chat EXCEPT !.handler[c].pc = "awaiting"]
          \/ /\ chat' = [chat EXCEPT !.handler[c] = IdleHandler]
             /\ FacadeUnchanged

\* /continue after the facade's call (command.py 210-212, 264): a response
\* has its session id stored; None and an exception leave the stored id
ContinueDone(c) ==
    /\ chat.handler[c].pc = "awaiting"
    /\ Over(c)
    /\ chat' = IF call[c].pc = "returned"
               THEN [chat EXCEPT !.handler[c] = IdleHandler,
                                 !.claude_session_id = call[c].response[1].session_id,
                                 !.ran = @ \cup {<<call[c].response[1].session_id, call[c].working_directory>>}]
               ELSE [chat EXCEPT !.handler[c] = IdleHandler]
    /\ FacadeUnchanged

NextChat ==
    \/ NewSession
    \/ EndSession
    \/ \E resolved_path \in Directories : ChangeDirectory(resolved_path)
    \/ \E c \in budget.slots :
          \/ ContinueRead(c)
          \/ ContinueCall(c)
          \/ ContinueDone(c)
          \/ StreamUpdate(c)
          \/ BackendReturns(c)
          \/ BackendRaises(c)

\* the chat of one user over a store that holds the sessions of earlier
\* messages: /new, /cd and /end may run while a /continue handler awaits;
\* the backends stream one tool call fewer and the steps of stream_handler
\* are not kept
InitChat ==
    /\ config \in Configs
    /\ sdk_failed_count = 0
    /\ sessions \in RestoredStores
    /\ now = LastClock(sessions)
    /\ call = [c \in Slots |-> IdleCall]
    /\ returned_ids = {}
    /\ failures_since_success = 0
    /\ budget = [calls |-> LastClock(sessions) + MaxCalls, tool_calls |-> MaxToolCalls - 1,
                 updates |-> 0, slots |-> {1}, places |-> Places, callers |-> Callers, traced |-> FALSE]
    /\ shutdown_log = <<>>
    /\ chat = IdleChat

SpecChat == InitChat /\ [][NextChat]_vars

\* C38: whatever the order of /new, /cd, /continue and /end of one user,
\* also when their handlers run together, a stored claude_session_id is the
\* id of a session that was run in the user's current directory.
C38_StoredIdOfCurrentDirectory ==
    Truthy(chat.claude_session_id) => <<chat.claude_session_id, chat.current_directory>> \in chat.ran

====
